---- MODULE Spec2Model ----
(***************************************************************************)
(* Multisig transaction coordinator: the engine's AddSignature flow, the   *)
(* persistence store it drives and the single-threaded client runtime.     *)
(*                                                                         *)
(* The store is a PostgreSQL database.  add_multisig_tx_signature runs its *)
(* statements inside `conn.transaction(..)`, which issues a plain BEGIN,   *)
(* so the block runs at the server's default isolation level, READ         *)
(* COMMITTED: every statement sees the rows committed before the statement *)
(* started plus the rows written by its own transaction.  The statements   *)
(* of one database transaction are therefore separate steps here, and the  *)
(* row a transaction inserted becomes visible to others at its commit.     *)
(*                                                                         *)
(* Spec follows AddSignature requests for a proposed transaction on a      *)
(* started engine.  SpecLifecycle follows the engine from construction:    *)
(* start, worker set-up, ProposeMultisigTx, AddSignature on the            *)
(* transactions proposals create, and stop.                                *)
(***************************************************************************)
EXTENDS Integers, Sequences, FiniteSets, TLC

VARIABLES engine, multisig_account, mapping, tx, signature, calls, proposes,
          queue, worker, chain, sent, creates, approver, building, client,
          sdk_accounts

vars == <<engine, multisig_account, mapping, tx, signature, calls, proposes,
          queue, worker, chain, sent, creates, approver, building, client,
                   sdk_accounts>>

\* ---------------------------------------------------------------- bounds
\* number of AddSignature calls the HTTP front-end has in progress at a time
MaxCalls == 2

\* number of messages the runtime's queue holds before callers stop posting
MaxQueue == 2

\* ------------------------------------------------------------ input sets
AccountAddresses == {"acc1", "acc2"}

\* approvers of each account in the order supplied at creation
ApproversOf(acc) == IF acc = "acc1" THEN <<"alice", "bob", "charlie">> ELSE <<"dave">>

\* addresses a request may name as approver; "eve" is no approver at all
Addresses == {"alice", "bob", "charlie", "dave", "eve"}

\* addresses a ProposeMultisigTx request may name; "acc3" is not in the store
ProposeAddresses == {"acc2", "acc3"}

\* ids the database hands out; "t1" is proposed before the model starts, the
\* others name no row until a proposal creates them
TxIds == {"t1", "t2"}

InitialTxIds == {"t1"}

NewTxIds == TxIds \ InitialTxIds

AccountOfTx(t) == "acc1"

\* signatures a request may carry
SignatureBytes == {"sig1", "sig2"}

\* the signature approver a makes over the proposed transaction
SignatureOf(a) == "sig_" \o a

\* ---------------------------------------------------------------- values
NoneSig == "None"

Pending == "pending"
Success == "success"
Failure == "failure"

MultisigTxStatus == {Pending, Success, Failure}

NoResult == [kind |-> "none", val |-> "-"]
OkNone == [kind |-> "ok", val |-> "None"]
OkSome(r) == [kind |-> "ok", val |-> r]
ErrResult(e) == [kind |-> "err", val |-> e]

EmptyReply == [st |-> "empty", val |-> "-"]
ClosedReply == [st |-> "closed", val |-> "-"]
OkReply(r) == [st |-> "ok", val |-> r]
ErrReply == [st |-> "err", val |-> "tx_execution"]
ErrReplyOf(e) == [st |-> "err", val |-> e]

NoMsg == [kind |-> "none", caller |-> "-", tx_id |-> "-", account_id |-> "-", signatures |-> <<>>]

Shutdown == [kind |-> "Shutdown", caller |-> "-", tx_id |-> "-", account_id |-> "-", signatures |-> <<>>]

\* engine type-states; "Dropped" is an engine value consumed by a failed stop
Stopped == "Stopped"
Started == "Started"
Stopping == "Stopping"
Dropped == "Dropped"

\* an AddSignature call in progress: its request, its position in
\* add_signature, its locals, its reply channel and its return value
NewCall(t, a) ==
    [pc |-> "start", tx_id |-> t, approver |-> a, signature |-> "-",
     stored |-> FALSE, signature_count |-> 0, threshold_met |-> FALSE, signatures |-> <<>>,
     posted |-> FALSE, reply |-> EmptyReply, result |-> NoResult]

\* the SDK's TransactionResult of executing the request of transaction t
TransactionResult(t) == "result_" \o t

\* a ProposeMultisigTx call in progress
NewPropose(acc) == [pc |-> "start", address |-> acc, reply |-> EmptyReply, result |-> NoResult]

\* the public key commitment a request supplies at position i
PubKeyCommit(i) == "pk" \o ToString(i)

\* the SDK's TransactionSummary of the dry run for account acc
TransactionSummary(acc) == "summary_" \o acc


\* ------------------------------------------------------ persistence layer
SignatureRow(t, a, s) == [tx_id |-> t, approver_address |-> a, signature_bytes |-> s]

\* rows of the account/approver join table written at account creation
MappingRows(acc) ==
    {[multisig_account_address |-> acc,
      approver_address |-> ApproversOf(acc)[i],
      approver_index |-> i - 1] : i \in 1..Len(ApproversOf(acc))}

\* EXISTS(mapping JOIN tx ON account WHERE tx.id = id AND approver_address = a)
validate_approver_address_by_tx_id_NoJoin(id, approver_address) ==
    \E m \in mapping : m.approver_address = approver_address

validate_approver_address_by_tx_id(id, approver_address) ==
    \E m \in mapping :
        /\ id \in DOMAIN tx
        /\ tx[id].multisig_account_address = m.multisig_account_address
        /\ m.approver_address = approver_address

\* COUNT(signature.tx_id) of tx LEFT JOIN signature, over the rows a statement sees
fetch_tx_with_signature_count_by_id(visible, id) ==
    Cardinality({r \in visible : r.tx_id = id})

fetch_mutisig_account_by_address(address) == multisig_account[address]

\* Some(signature_count >= threshold)
ThresholdMet_OffByOne(signature_count, threshold) == signature_count + 1 >= threshold

ThresholdMet_Always(signature_count, threshold) == TRUE

ThresholdMet(signature_count, threshold) == signature_count >= threshold

\* position of mapping row m under ORDER BY approver_index ASC
ApproverRank_Desc(ms, m) == Cardinality({o \in ms : o.approver_index > m.approver_index}) + 1

ApproverRank(ms, m) == Cardinality({o \in ms : o.approver_index < m.approver_index}) + 1

\* array_agg(signature_bytes ORDER BY approver_index ASC) over
\* tx JOIN mapping LEFT JOIN signature
fetch_all_signature_bytes_with_tx_by_tx_id_in_order_of_approvers(id) ==
    LET acc == tx[id].multisig_account_address
        ms == {m \in mapping : m.multisig_account_address = acc}
        Rank(m) == ApproverRank(ms, m)
        At(i) == CHOOSE m \in ms : Rank(m) = i
        SigOf(m) == {r \in signature : r.tx_id = id /\ r.approver_address = m.approver_address}
    IN  [i \in 1..Cardinality(ms) |->
            IF SigOf(At(i)) = {} THEN NoneSig
            ELSE (CHOOSE r \in SigOf(At(i)) : TRUE).signature_bytes]

\* UPDATE tx SET status = new_status WHERE id = tx_id
update_status_by_tx_id(tx_id, new_status) ==
    IF tx_id \in DOMAIN tx THEN [tx EXCEPT ![tx_id].status = new_status] ELSE tx

\* the status the engine writes after the runtime's reply
StatusOnOk_Failure == Failure

StatusOnOk == Success

StatusOnErr_Success == Success

StatusOnErr == Failure

\* no account under construction, and no call into the client library
NoAccount == [pc |-> "idle", value |-> {}, on |-> {}, supplied |-> 0]

NoClient == [pc |-> "idle", num_approvers |-> 0, signatures |-> <<>>, i |-> 0,
             advice |-> {}, executed |-> FALSE, result |-> NoResult]

\* ----------------------------------------------------------------- Init
\* the store after the accounts were created and transaction t1 was proposed
InitStore ==
    /\ multisig_account \in
         {f \in [AccountAddresses -> [threshold : 1..Cardinality(Addresses)]] :
             \A acc \in AccountAddresses : f[acc].threshold <= Len(ApproversOf(acc))}
    /\ mapping = UNION {MappingRows(acc) : acc \in AccountAddresses}
    /\ tx = [t \in InitialTxIds |-> [multisig_account_address |-> AccountOfTx(t), status |-> Pending]]
    /\ signature = {}
    /\ chain = [t \in TxIds |-> 0]
    /\ sent = [t \in TxIds |-> 0]
    /\ approver = [a \in {m.approver_address : m \in mapping} |->
                      PubKeyCommit((CHOOSE m \in mapping : m.approver_address = a).approver_index + 1)]

\* a started engine whose worker has built its client and waits on the queue
Init ==
    /\ InitStore
    /\ engine = Started
    /\ calls = {}
    /\ proposes = {}
    /\ creates = {}
    /\ building = NoAccount
    /\ client = NoClient
    /\ sdk_accounts = DOMAIN multisig_account
    /\ queue = <<>>
    /\ worker = [pc |-> "recv", msg |-> NoMsg]

\* MultisigEngine::new: a stopped engine, no channel and no worker thread
InitLifecycle ==
    /\ InitStore
    /\ engine = Stopped
    /\ calls = {}
    /\ proposes = {}
    /\ creates = {}
    /\ building = NoAccount
    /\ client = NoClient
    /\ sdk_accounts = DOMAIN multisig_account
    /\ queue = <<>>
    /\ worker = [pc |-> "none", msg |-> NoMsg]


\* ------------------------------------------------- engine: add_signature
\* `calls` is the set of calls in progress; a call is known by its request
\* and position, not by a slot number
\* the engine's operations take `&self` of a Started engine
CanStart == engine = Started /\ Cardinality(calls) + Cardinality(proposes) < MaxCalls

\* the worker thread has returned and dropped the queue's receiver
WorkerGone == worker.pc \in {"exited", "failed"}

Step(k, k2) == calls' = (calls \ {k}) \cup {k2}

\* the row a call's open database transaction has inserted and not committed
Uncommitted(k) ==
    IF k.pc = "commit" THEN {SignatureRow(k.tx_id, k.approver, k.signature)} ELSE {}

SameKey(r, t, a) == r.tx_id = t /\ r.approver_address = a

\* the primary key (tx_id, approver_address) of the signature table rejects
\* an INSERT when a row with that key exists
PrimaryKeyTaken_Never(t, a) == FALSE

PrimaryKeyTaken(t, a) == \E r \in signature : SameKey(r, t, a)

\* store returns Ok(None): the engine answers "approver not permitted"
AddSignatureNotPermitted(t, a, s) ==
    /\ CanStart
    /\ ~validate_approver_address_by_tx_id(t, a)
    /\ calls' = calls \cup {[NewCall(t, a) EXCEPT !.pc = "done",
                                !.result = ErrResult("approver not permitted")]}
    /\ UNCHANGED <<engine, proposes, multisig_account, mapping, tx, signature, queue, worker,
                   chain, sent, creates, approver, building, client,
                   sdk_accounts>>

\* save_new_signature hits the primary key (tx_id, approver_address): the
\* database transaction rolls back and the store returns Err(Store)
AddSignatureDuplicate(t, a, s) ==
    /\ CanStart
    /\ validate_approver_address_by_tx_id(t, a)
    /\ PrimaryKeyTaken(t, a)
    /\ calls' = calls \cup {[NewCall(t, a) EXCEPT !.pc = "done", !.result = ErrResult("store")]}
    /\ UNCHANGED <<engine, proposes, multisig_account, mapping, tx, signature, queue, worker,
                   chain, sent, creates, approver, building, client,
                   sdk_accounts>>

\* inside the open database transaction: validate the approver, INSERT the
\* signature row, recount and compare with the account's threshold.  The
\* recount sees the committed rows plus the transaction's own row.  An INSERT
\* of a key another open transaction has inserted waits for that transaction.
AddSignatureInsert(t, a, s) ==
    /\ CanStart
    /\ validate_approver_address_by_tx_id(t, a)
    /\ ~PrimaryKeyTaken(t, a)
    /\ ~ \E o \in calls : \E r \in Uncommitted(o) : SameKey(r, t, a)
    /\ LET signature_count ==
               fetch_tx_with_signature_count_by_id(signature \cup {SignatureRow(t, a, s)}, t)
           threshold == fetch_mutisig_account_by_address(tx[t].multisig_account_address).threshold
       IN  calls' = calls \cup {[NewCall(t, a) EXCEPT !.pc = "commit", !.signature = s,
                                    !.signature_count = signature_count,
                                    !.threshold_met = ThresholdMet(signature_count, threshold)]}
    /\ UNCHANGED <<engine, proposes, multisig_account, mapping, tx, signature, queue, worker,
                   chain, sent, creates, approver, building, client,
                   sdk_accounts>>

\* INSERT INTO signature VALUES (new_signature): the table gains one row
save_new_signature_Replace(rows, new_signature) ==
    {r \in rows : r.tx_id # new_signature.tx_id} \cup {new_signature}

save_new_signature(rows, new_signature) == rows \cup {new_signature}

\* COMMIT; Some(false) makes the engine return Ok(None)
AddSignatureCommit(k) ==
    /\ k.pc = "commit"
    /\ signature' = save_new_signature(signature, SignatureRow(k.tx_id, k.approver, k.signature))
    /\ Step(k, [k EXCEPT !.stored = TRUE, !.signature = "-", !.signature_count = 0,
                         !.pc = IF k.threshold_met THEN "load" ELSE "done",
                         !.result = IF k.threshold_met THEN NoResult ELSE OkNone])
    /\ UNCHANGED <<engine, proposes, multisig_account, mapping, tx, queue, worker, chain, sent,
                   creates, approver, building, client,
                   sdk_accounts>>

\* threshold met: load the ordered signatures and the transaction
AddSignatureLoad(k) ==
    /\ k.pc = "load"
    /\ Step(k, [k EXCEPT !.pc = "send",
                         !.signatures =
                             fetch_all_signature_bytes_with_tx_by_tx_id_in_order_of_approvers(k.tx_id)])
    /\ UNCHANGED <<engine, proposes, multisig_account, mapping, tx, signature, queue, worker,
                   chain, sent, creates, approver, building, client,
                   sdk_accounts>>

\* the message carries the reply sender of the call's oneshot channel
ProcessMultisigTx(k) ==
    [kind |-> "ProcessMultisigTx", caller |-> k.approver, tx_id |-> k.tx_id,
     account_id |-> tx[k.tx_id].multisig_account_address,
     signatures |-> k.signatures]

\* post ProcessMultisigTx on the runtime's unbounded queue; the send fails
\* when the worker has dropped the receiver and `?` returns the error
AddSignatureSend(k) ==
    /\ k.pc = "send"
    /\ IF WorkerGone
       THEN /\ Step(k, [k EXCEPT !.pc = "done", !.signatures = <<>>,
                                 !.result = ErrResult("mpsc sender")])
            /\ UNCHANGED <<queue, sent>>
       ELSE /\ Len(queue) < MaxQueue
            /\ queue' = Append(queue, ProcessMultisigTx(k))
            /\ sent' = [sent EXCEPT ![k.tx_id] = @ + 1]
            /\ Step(k, [k EXCEPT !.pc = "await", !.posted = TRUE, !.signatures = <<>>])
    /\ UNCHANGED <<engine, proposes, multisig_account, mapping, tx, signature, worker, chain,
                   creates, approver, building, client,
                   sdk_accounts>>

\* reply Ok(tx_result): UpdateStatus(success), return Ok(Some(tx_result))
AddSignatureReplyOk(k) ==
    /\ k.pc = "await"
    /\ k.reply.st = "ok"
    /\ tx' = update_status_by_tx_id(k.tx_id, StatusOnOk)
    /\ Step(k, [k EXCEPT !.pc = "done", !.result = OkSome(k.reply.val)])
    /\ UNCHANGED <<engine, proposes, multisig_account, mapping, signature, queue, worker, chain,
                   sent, creates, approver, building, client,
                   sdk_accounts>>

\* reply Err(e): UpdateStatus(failure), return the error
AddSignatureReplyErr(k) ==
    /\ k.pc = "await"
    /\ k.reply.st = "err"
    /\ tx' = update_status_by_tx_id(k.tx_id, StatusOnErr)
    /\ Step(k, [k EXCEPT !.pc = "done", !.result = ErrResult(k.reply.val)])
    /\ UNCHANGED <<engine, proposes, multisig_account, mapping, signature, queue, worker, chain,
                   sent, creates, approver, building, client,
                   sdk_accounts>>

\* the reply channel was dropped without a value: receiver.await fails and
\* the `?` returns the receive error before any status update
AddSignatureReplyClosed(k) ==
    /\ k.pc = "await"
    /\ k.reply.st = "closed"
    /\ Step(k, [k EXCEPT !.pc = "done", !.result = ErrResult("runtime receive")])
    /\ UNCHANGED <<engine, proposes, multisig_account, mapping, tx, signature, queue, worker,
                   chain, sent, creates, approver, building, client,
                   sdk_accounts>>

\* the call's future completes and the HTTP handler answers
AddSignatureReturn(k) ==
    /\ k.pc = "done"
    /\ calls' = calls \ {k}
    /\ UNCHANGED <<engine, proposes, multisig_account, mapping, tx, signature, queue, worker,
                   chain, sent, creates, approver, building, client,
                   sdk_accounts>>

\* the caller drops the call's future while it waits for the runtime's reply:
\* the reply receiver is dropped with it
AddSignatureCancel(k) ==
    /\ k.pc = "await"
    /\ k.reply = EmptyReply
    /\ calls' = calls \ {k}
    /\ UNCHANGED <<engine, proposes, multisig_account, mapping, tx, signature, queue, worker,
                   chain, sent, creates, approver, building, client,
                   sdk_accounts>>

\* ------------------------------------------- engine: propose_multisig_tx
ProposeMultisigTx(acc) ==
    [kind |-> "ProposeMultisigTx", caller |-> "-", tx_id |-> "-",
     account_id |-> acc, signatures |-> <<>>]

\* get_multisig_account(address) is Some
get_multisig_account(address) == address \in DOMAIN multisig_account

\* the status of a row inserted without one: the column's default
InsertedStatus_Success == Success

InsertedStatus == Pending

\* INSERT INTO tx .. RETURNING id: the database generates the id, the status
\* column takes its default
save_new_tx(id, multisig_account_address) ==
    [t \in DOMAIN tx \cup {id} |->
        IF t = id THEN [multisig_account_address |-> multisig_account_address,
                        status |-> InsertedStatus]
        ELSE tx[t]]

\* post ProposeMultisigTx, then look the account up in the store: the message
\* is on the queue before the lookup answers "account not found"
ProposeStart(acc) ==
    /\ CanStart
    /\ ~ \E p \in proposes : p.address = acc
    /\ IF WorkerGone
       THEN /\ proposes' = proposes \cup
                   {[NewPropose(acc) EXCEPT !.pc = "done", !.result = ErrResult("mpsc sender")]}
            /\ UNCHANGED queue
       ELSE /\ Len(queue) < MaxQueue
            /\ queue' = Append(queue, ProposeMultisigTx(acc))
            /\ IF get_multisig_account(acc)
               THEN /\ Cardinality(TxIds \ DOMAIN tx) >
                          Cardinality({p \in proposes : p.pc = "await"})
                    /\ proposes' = proposes \cup {[NewPropose(acc) EXCEPT !.pc = "await"]}
               ELSE proposes' = proposes \cup
                        {[NewPropose(acc) EXCEPT !.pc = "done",
                                                 !.result = ErrResult("account not found")]}
    /\ UNCHANGED <<engine, multisig_account, mapping, tx, signature, calls, worker, chain, sent,
                   creates, approver, building, client,
                   sdk_accounts>>

\* reply Ok(tx_summary): create_multisig_tx, return the new id
ProposeReplyOk(p) ==
    /\ p.pc = "await"
    /\ p.reply.st = "ok"
    /\ LET id == CHOOSE t \in TxIds \ DOMAIN tx : TRUE
       IN  /\ tx' = save_new_tx(id, p.address)
           /\ proposes' = (proposes \ {p}) \cup {[p EXCEPT !.pc = "done", !.result = OkSome(id)]}
    /\ UNCHANGED <<engine, multisig_account, mapping, signature, calls, queue, worker, chain,
                   sent, creates, approver, building, client,
                   sdk_accounts>>

\* reply Err(e), or the reply sender dropped: `?` returns the error
ProposeReplyErr(p) ==
    /\ p.pc = "await"
    /\ p.reply.st \in {"err", "closed"}
    /\ proposes' = (proposes \ {p}) \cup
           {[p EXCEPT !.pc = "done",
                      !.result = IF p.reply.st = "err" THEN ErrResult(p.reply.val)
                                 ELSE ErrResult("runtime receive")]}
    /\ UNCHANGED <<engine, multisig_account, mapping, tx, signature, calls, queue, worker,
                   chain, sent, creates, approver, building, client,
                   sdk_accounts>>

ProposeReturn(p) ==
    /\ p.pc = "done"
    /\ proposes' = proposes \ {p}
    /\ UNCHANGED <<engine, multisig_account, mapping, tx, signature, calls, queue, worker,
                   chain, sent, creates, approver, building, client,
                   sdk_accounts>>

\* ------------------------------------------------------ engine lifecycle
\* start_multisig_client_runtime: a fresh channel and a spawned worker thread
Start ==
    /\ engine = Stopped
    /\ engine' = Started
    /\ queue' = <<>>
    /\ worker' = [pc |-> "init", msg |-> NoMsg]
    /\ UNCHANGED <<multisig_account, mapping, tx, signature, calls, proposes, chain, sent,
                   creates, approver, building, client,
                   sdk_accounts>>

\* stop_multisig_client_runtime takes the engine by value, so no call borrows
\* it any more; it posts Shutdown, or fails when the receiver is gone
Stop ==
    /\ engine = Started
    /\ calls = {}
    /\ proposes = {}
    /\ creates = {}
    /\ IF WorkerGone
       THEN engine' = Dropped /\ UNCHANGED queue
       ELSE engine' = Stopping /\ queue' = Append(queue, Shutdown)
    /\ UNCHANGED <<multisig_account, mapping, tx, signature, calls, proposes, worker, chain,
                   sent, creates, approver, building, client,
                   sdk_accounts>>

\* handle.join(): returns when the thread has returned; the thread's Err
\* makes stop fail and the engine value is lost
StopJoin ==
    /\ engine = Stopping
    /\ WorkerGone
    /\ engine' = IF worker.pc = "exited" THEN Stopped ELSE Dropped
    /\ UNCHANGED <<multisig_account, mapping, tx, signature, calls, proposes, queue, worker,
                   chain, sent, creates, approver, building, client,
                   sdk_accounts>>

\* ------------------------------------------------------- client runtime
\* the receiver is dropped with messages still queued: their reply senders
\* are dropped, and every call waiting on one finds its channel closed
CloseWaiting_Keep(cs) == cs

CloseWaiting(cs) ==
    {IF k.pc = "await" /\ k.reply = EmptyReply THEN [k EXCEPT !.reply = ClosedReply] ELSE k :
        k \in cs}

\* building the client and the first sync_state()?: on Err the thread returns
WorkerInit(ok) ==
    /\ worker.pc = "init"
    /\ IF ok
       THEN worker' = [worker EXCEPT !.pc = "recv"] /\ UNCHANGED <<queue, calls, proposes, creates>>
       ELSE /\ worker' = [worker EXCEPT !.pc = "failed"]
            /\ queue' = <<>>
            /\ calls' = CloseWaiting(calls)
            /\ proposes' = CloseWaiting(proposes)
            /\ creates' = CloseWaiting(creates)
    /\ UNCHANGED <<engine, multisig_account, mapping, tx, signature, chain, sent,
                   approver, building, client,
                   sdk_accounts>>

\* msg_receiver.recv(): the message at the front of the queue
Dequeue_Lifo(q) == [msg |-> q[Len(q)], rest |-> SubSeq(q, 1, Len(q) - 1)]

Dequeue(q) == [msg |-> Head(q), rest |-> Tail(q)]

\* the first SDK call of a message's handler
HandlerStart(m) ==
    IF m.kind = "ProcessMultisigTx" THEN "get_account"
    ELSE IF m.kind = "CreateMultisigAccount" THEN "setup_account"
    ELSE "propose"

\* the first statement of every handler: client.sync_state().await?
HandlerEntry_NoSync(m) == HandlerStart(m)

HandlerEntry(m) == "sync"

\* the loop takes the next message and calls its handler
WorkerRecv ==
    /\ worker.pc = "recv"
    /\ queue # <<>>
    /\ Dequeue(queue).msg # Shutdown
    /\ worker' = [pc |-> HandlerEntry(Dequeue(queue).msg), msg |-> Dequeue(queue).msg]
    /\ queue' = Dequeue(queue).rest
    /\ UNCHANGED <<engine, multisig_account, mapping, tx, signature, calls, proposes, chain,
                   sent, creates, approver, building, client,
                   sdk_accounts>>

\* where the loop goes on Shutdown
OnShutdown_Continue == "recv"

OnShutdown == "exited"

\* Shutdown: break out of the loop and return Ok(()); the receiver is dropped
\* with whatever is still queued
WorkerShutdown ==
    /\ worker.pc = "recv"
    /\ queue # <<>>
    /\ Dequeue(queue).msg = Shutdown
    /\ worker' = [pc |-> OnShutdown, msg |-> NoMsg]
    /\ queue' = IF OnShutdown = "exited" THEN <<>> ELSE Dequeue(queue).rest
    /\ calls' = CloseWaiting(calls)
    /\ proposes' = CloseWaiting(proposes)
    /\ creates' = CloseWaiting(creates)
    /\ UNCHANGED <<engine, multisig_account, mapping, tx, signature, chain, sent,
                   approver, building, client,
                   sdk_accounts>>

\* the call that awaits the reply to message m
Awaiting(m) ==
    {k \in calls : /\ m.kind = "ProcessMultisigTx"
                   /\ k.pc = "await" /\ k.tx_id = m.tx_id /\ k.approver = m.caller}

AwaitingPropose(m) ==
    {p \in proposes : /\ m.kind = "ProposeMultisigTx"
                      /\ p.pc = "await" /\ p.address = m.account_id}

AwaitingCreate(m) ==
    {c \in creates : m.kind = "CreateMultisigAccount" /\ c.pc = "await"}

\* where the loop goes when a handler returned Err: the error is logged
AfterHandlerErr_Fatal == "failed"

AfterHandlerErr == "recv"

\* where the loop goes when sender.send found the receiver dropped: `let _ =`
AfterSendFailure_Fatal == "failed"

AfterSendFailure == "recv"

\* sender.send(v) on the reply channel of message m, then back to the loop
Reply(m, v) ==
    /\ calls' = (calls \ Awaiting(m)) \cup {[k EXCEPT !.reply = v] : k \in Awaiting(m)}
    /\ proposes' = (proposes \ AwaitingPropose(m)) \cup
                       {[p EXCEPT !.reply = v] : p \in AwaitingPropose(m)}
    /\ creates' = (creates \ AwaitingCreate(m)) \cup
                      {[c EXCEPT !.reply = v] : c \in AwaitingCreate(m)}
    /\ worker' = [pc |-> IF Awaiting(m) = {} /\ AwaitingPropose(m) = {} /\ AwaitingCreate(m) = {}
                         THEN AfterSendFailure ELSE "recv",
                  msg |-> NoMsg]

\* a handler that returns early with `?` drops the message's reply sender
DropSender ==
    /\ calls' = (calls \ Awaiting(worker.msg)) \cup
                    {[k EXCEPT !.reply = ClosedReply] : k \in Awaiting(worker.msg)}
    /\ proposes' = (proposes \ AwaitingPropose(worker.msg)) \cup
                       {[p EXCEPT !.reply = ClosedReply] : p \in AwaitingPropose(worker.msg)}
    /\ creates' = (creates \ AwaitingCreate(worker.msg)) \cup
                      {[c EXCEPT !.reply = ClosedReply] : c \in AwaitingCreate(worker.msg)}
    /\ worker' = [pc |-> AfterHandlerErr, msg |-> NoMsg]

\* client.sync_state().await? at the top of every handler
WorkerSync(ok) ==
    /\ worker.pc = "sync"
    /\ IF ok THEN /\ worker' = [worker EXCEPT !.pc = HandlerStart(worker.msg)]
                  /\ UNCHANGED <<calls, proposes, creates>>
             ELSE DropSender
    /\ UNCHANGED <<engine, multisig_account, mapping, tx, signature, queue, chain, sent,
                   approver, building, client,
                   sdk_accounts>>

\* what the SDK's execute_transaction returns for the proposed request
SdkOutcomes == {"ok", "unauthorized", "other"}

\* self.execute_transaction(account_id, tx_request).await
WorkerDryRun(outcome) ==
    /\ worker.pc = "propose"
    /\ worker' = [worker EXCEPT !.pc = "sdk_" \o outcome]
    /\ UNCHANGED <<engine, multisig_account, mapping, tx, signature, calls, proposes, queue,
                   chain, sent, creates, approver, building, client,
                   sdk_accounts>>

\* the match in propose_multisig_transaction: only Unauthorized(summary)
\* is a proposal
propose_multisig_transaction_OkIsSummary(sdk, account_id) ==
    IF sdk \in {"sdk_unauthorized", "sdk_ok"} THEN OkReply(TransactionSummary(account_id))
    ELSE ErrReplyOf("Other")

propose_multisig_transaction(sdk, account_id) ==
    IF sdk = "sdk_ok" THEN ErrReplyOf("DryRunExpected")
    ELSE IF sdk = "sdk_unauthorized" THEN OkReply(TransactionSummary(account_id))
    ELSE ErrReplyOf("Other")

\* sender.send(tx_summary.map_err(From::from))
WorkerPropose ==
    /\ worker.pc \in {"sdk_" \o o : o \in SdkOutcomes}
    /\ Reply(worker.msg, propose_multisig_transaction(worker.pc, worker.msg.account_id))
    /\ UNCHANGED <<engine, multisig_account, mapping, tx, signature, queue, chain, sent,
                   approver, building, client,
                   sdk_accounts>>

\* client.try_get_account(account_id).await?
WorkerGetAccount(ok) ==
    /\ worker.pc = "get_account"
    /\ IF ok THEN worker' = [worker EXCEPT !.pc = "execute"] /\ UNCHANGED <<calls, proposes, creates>>
             ELSE DropSender
    /\ UNCHANGED <<engine, multisig_account, mapping, tx, signature, queue, chain, sent,
                   approver, building, client,
                   sdk_accounts>>

\* signatures.len() != num_approvers
NumSignaturesMismatch_Never(len, num_approvers) == FALSE

NumSignaturesMismatch(len, num_approvers) == len # num_approvers

\* number of approvers in the account's on-chain storage
NumApprovers(account_id) == Len(ApproversOf(account_id))

\* client.new_multisig_transaction(..): NumSignaturesMismatch when the vector
\* length differs from num_approvers; otherwise the SDK's execution decides.
\* An Err is sent on the reply channel at once; an Ok goes on to submission.
WorkerExecute(ok) ==
    /\ worker.pc = "execute"
    /\ IF ok /\ ~NumSignaturesMismatch(Len(worker.msg.signatures),
                                       NumApprovers(worker.msg.account_id))
       THEN worker' = [worker EXCEPT !.pc = "submit"] /\ UNCHANGED <<calls, proposes, creates>>
       ELSE Reply(worker.msg, ErrReply)
    /\ UNCHANGED <<engine, multisig_account, mapping, tx, signature, queue, chain, sent,
                   approver, building, client,
                   sdk_accounts>>

\* client.submit_transaction(tx_result).await? returned Err: the handler
\* returns before it reaches sender.send
SubmitFailed_ReplyOk == Reply(worker.msg, OkReply(TransactionResult(worker.msg.tx_id)))

SubmitFailed == DropSender

\* client.submit_transaction(tx_result).await?, then sender.send(Ok(tx_result))
WorkerSubmit(ok) ==
    /\ worker.pc = "submit"
    /\ IF ok
       THEN /\ chain' = [chain EXCEPT ![worker.msg.tx_id] = @ + 1]
            /\ Reply(worker.msg, OkReply(TransactionResult(worker.msg.tx_id)))
       ELSE SubmitFailed /\ UNCHANGED chain
    /\ UNCHANGED <<engine, multisig_account, mapping, tx, signature, queue, sent,
                   approver, building, client,
                   sdk_accounts>>

\* ------------------------------------ engine: create_multisig_account
\* approver addresses a creation request may name, and how many
CreateApprovers == {"alice", "bob"}

MaxApprovers == 2

SeqsUpTo(S, n) == UNION {[1..k -> S] : k \in 0..n}

\* the commitments a request supplies, one per position
PubKeyCommits(n) == [i \in 1..n |-> PubKeyCommit(i)]

\* threshold > approvers.len()
ExcessThreshold_Never(threshold, n) == FALSE

ExcessThreshold(threshold, n) == threshold > n

\* CreateMultisigAccountRequest::new: the checks in the order of the code;
\* threshold is a NonZeroU32
CreateMultisigAccountRequestNew(threshold, approvers, pub_key_commits) ==
    IF approvers = <<>> THEN "EmptyApprovers"
    ELSE IF pub_key_commits = <<>> THEN "EmptyPubKeyCommits"
    ELSE IF Len(approvers) # Len(pub_key_commits) THEN "ApproversPubKeyCommitsLengthMismatch"
    ELSE IF ExcessThreshold(threshold, Len(approvers)) THEN "ExcessThreshold"
    ELSE "Ok"

\* a CreateMultisigAccount call in progress
NewCreate(threshold, approvers, pub_key_commits) ==
    [pc |-> "start", threshold |-> threshold, approvers |-> approvers,
     pub_key_commits |-> pub_key_commits, reply |-> EmptyReply, result |-> NoResult]

\* the message create_multisig_account posts: the commitments are the
\* on-chain account's approvers
CreateMultisigAccount(threshold, pub_key_commits) ==
    [kind |-> "CreateMultisigAccount", caller |-> "-", tx_id |-> "-", account_id |-> "-",
     signatures |-> <<>>, threshold |-> threshold, approvers |-> pub_key_commits]

\* MultisigAccount::builder()..build(): neither approvers nor commitments
MultisigAccountBuilder(address, threshold) ==
    [address |-> address, threshold |-> threshold,
     has_approvers |-> FALSE, approvers |-> <<>>,
     has_pub_key_commits |-> FALSE, pub_key_commits |-> <<>>]

\* Option values
None == {}
Some(x) == {x}

\* the first attachment's test against the threshold
MeetsThreshold_Strict(n, threshold) == n > threshold

MeetsThreshold(n, threshold) == n >= threshold

\* MultisigAccount::with_approvers, on an account without approvers
with_approvers(account, approver_account_ids) ==
    IF account.has_pub_key_commits
    THEN IF Len(account.pub_key_commits) = Len(approver_account_ids)
         THEN Some([account EXCEPT !.has_approvers = TRUE, !.approvers = approver_account_ids])
         ELSE None
    ELSE IF MeetsThreshold(Len(approver_account_ids), account.threshold)
         THEN Some([account EXCEPT !.has_approvers = TRUE, !.approvers = approver_account_ids])
         ELSE None

\* MultisigAccount::with_pub_key_commits, on an account without commitments
with_pub_key_commits(account, pub_key_commits) ==
    IF account.has_approvers
    THEN IF Len(account.approvers) = Len(pub_key_commits)
         THEN Some([account EXCEPT !.has_pub_key_commits = TRUE,
                                   !.pub_key_commits = pub_key_commits])
         ELSE None
    ELSE IF MeetsThreshold(Len(pub_key_commits), account.threshold)
         THEN Some([account EXCEPT !.has_pub_key_commits = TRUE,
                                   !.pub_key_commits = pub_key_commits])
         ELSE None

\* idx of `.enumerate()` for the approver at position i of the list
ApproverIndex_OneBased(i) == i

ApproverIndex(i) == i - 1

\* save_new_multisig_account_approver_mapping for each (idx, approver)
NewMappingRows(address, approvers) ==
    {[multisig_account_address |-> address,
      approver_address |-> approvers[i],
      approver_index |-> ApproverIndex(i)] : i \in 1..Len(approvers)}

\* upsert_approver for each (approver, commit): ON CONFLICT the commitment
\* is overwritten; a later position of the same address wins
UpsertApprovers(approvers, pub_key_commits) ==
    LET as == {approvers[i] : i \in 1..Len(approvers)}
        Last(a) == CHOOSE i \in 1..Len(approvers) :
                       /\ approvers[i] = a
                       /\ \A j \in 1..Len(approvers) : approvers[j] = a => j <= i
    IN  [a \in DOMAIN approver \cup as |->
            IF a \in as THEN pub_key_commits[Last(a)] ELSE approver[a]]

\* a constraint of the schema rejects one of the transaction's inserts: the
\* account's primary key, or the join table's (account, approver) primary key
CreateViolatesKey(address, approvers) ==
    \/ address \in DOMAIN multisig_account
    \/ \E i, j \in 1..Len(approvers) : i # j /\ approvers[i] = approvers[j]

\* SELECT .. FROM mapping JOIN approver WHERE account = address
\* ORDER BY approver_index ASC
stream_approvers_by_multisig_account_address(address) ==
    LET ms == {m \in mapping : m.multisig_account_address = address}
        At(i) == CHOOSE m \in ms : ApproverRank(ms, m) = i
    IN  [i \in 1..Cardinality(ms) |->
            [address |-> At(i).approver_address,
             pub_key_commit |-> approver[At(i).approver_address]]]

\* ids the client's random seed may give a new on-chain account
FreeAccountIds == AccountAddresses \ (DOMAIN multisig_account \cup sdk_accounts)

\* setup_account's self.add_account(&multisig_account, false): the client
\* tracks the new account from here on
add_account(accounts, id) == accounts \cup {id}

CreateStep(c, c2) == creates' = (creates \ {c}) \cup {c2}

\* the request constructor refuses the input: no request value exists and
\* the engine is never called
CreateRejected(threshold, approvers, pub_key_commits) ==
    /\ creates = {}
    /\ CreateMultisigAccountRequestNew(threshold, approvers, pub_key_commits) # "Ok"
    /\ creates' = {[NewCreate(threshold, approvers, pub_key_commits) EXCEPT
                      !.pc = "done",
                      !.result = ErrResult(CreateMultisigAccountRequestNew(
                                               threshold, approvers, pub_key_commits))]}
    /\ UNCHANGED <<engine, multisig_account, mapping, tx, signature, calls, proposes, queue,
                   worker, chain, sent, approver, building, client,
                   sdk_accounts>>

\* create_multisig_account: post CreateMultisigAccount, then await the reply
CreateStart(threshold, approvers, pub_key_commits) ==
    /\ engine = Started
    /\ creates = {}
    /\ FreeAccountIds # {}
    /\ CreateMultisigAccountRequestNew(threshold, approvers, pub_key_commits) = "Ok"
    /\ IF WorkerGone
       THEN /\ creates' = {[NewCreate(threshold, approvers, pub_key_commits) EXCEPT
                              !.pc = "done", !.result = ErrResult("mpsc sender")]}
            /\ UNCHANGED queue
       ELSE /\ Len(queue) < MaxQueue
            /\ queue' = Append(queue, CreateMultisigAccount(threshold, pub_key_commits))
            /\ creates' = {[NewCreate(threshold, approvers, pub_key_commits) EXCEPT
                              !.pc = "await"]}
    /\ UNCHANGED <<engine, multisig_account, mapping, tx, signature, calls, proposes, worker,
                   chain, sent, approver, building, client,
                   sdk_accounts>>

\* receiver.await fails: the runtime dropped the reply sender
CreateReplyClosed(c) ==
    /\ c.pc = "await"
    /\ c.reply = ClosedReply
    /\ CreateStep(c, [c EXCEPT !.pc = "done", !.result = ErrResult("oneshot receiver")])
    /\ UNCHANGED <<engine, multisig_account, mapping, tx, signature, calls, proposes, queue,
                   worker, chain, sent, approver, building, client,
                   sdk_accounts>>

\* the account the engine builds from the runtime's reply
BuiltAccount(c) ==
    LET first == with_approvers(MultisigAccountBuilder(c.reply.val, c.threshold), c.approvers)
    IN  IF first = None THEN None
        ELSE with_pub_key_commits(CHOOSE a \in first : TRUE, c.pub_key_commits)

\* the committed rows of the three tables create_multisig_account writes
StoreRows == [multisig_account |-> multisig_account, approver |-> approver, mapping |-> mapping]

\* the position of the first approver whose join row violates the primary
\* key (multisig_account_address, approver_address); 0 when there is none
FirstRepeat(approvers) ==
    LET rs == {j \in 1..Len(approvers) : \E i \in 1..(j - 1) : approvers[i] = approvers[j]}
    IN  IF rs = {} THEN 0 ELSE CHOOSE j \in rs : \A k \in rs : j <= k

\* what the transaction has written once the account row is in, `ups`
\* approvers are upserted and `maps` join rows are inserted
Written(account, ups, maps) ==
    [multisig_account |->
         [a \in DOMAIN multisig_account \cup {account.address} |->
             IF a = account.address THEN [threshold |-> account.threshold]
             ELSE multisig_account[a]],
     approver |-> UpsertApprovers(SubSeq(account.approvers, 1, ups),
                                  SubSeq(account.pub_key_commits, 1, ups)),
     mapping |-> mapping \cup NewMappingRows(account.address,
                                             SubSeq(account.approvers, 1, maps))]

\* conn.transaction(..) whose closure returned Err: the transaction's writes
\* are rolled back
Rollback_Autocommit(before, written) == written

Rollback(before, written) == before

\* the driver fails after `fault` approvers are written; NoFault: it does not
NoFault == 0 - 1

DriverFaults(n) == {NoFault} \cup 0..n

\* MultisigStore::create_multisig_account: the rows after the call and
\* whether it returned Ok
create_multisig_account(account, fault) ==
    LET n == Len(account.approvers)
        r == FirstRepeat(account.approvers)
    IN  IF account.address \in DOMAIN multisig_account
        THEN [ok |-> FALSE, rows |-> Rollback(StoreRows, StoreRows)]
        ELSE IF fault # NoFault /\ (r = 0 \/ fault < r)
        THEN [ok |-> FALSE, rows |-> Rollback(StoreRows, Written(account, fault, fault))]
        ELSE IF CreateViolatesKey(account.address, account.approvers)
        THEN [ok |-> FALSE, rows |-> Rollback(StoreRows, Written(account, r, r - 1))]
        ELSE [ok |-> TRUE, rows |-> Written(account, n, n)]

\* the reply carries the on-chain account: attach approvers and commitments,
\* then MultisigStore::create_multisig_account in one database transaction,
\* which a constraint violation or a driver error rolls back as a whole
CreateStore(c, fault) ==
    /\ c.pc = "await"
    /\ c.reply.st = "ok"
    /\ LET first == with_approvers(MultisigAccountBuilder(c.reply.val, c.threshold), c.approvers)
           built == BuiltAccount(c)
           account == CHOOSE a \in built : TRUE
           stored == create_multisig_account(account, fault)
       IN  IF first = None
           THEN /\ CreateStep(c, [c EXCEPT !.pc = "done",
                                   !.result = ErrResult("threshold exceeds approvers length")])
                /\ UNCHANGED <<multisig_account, mapping, approver>>
           ELSE IF built = None
           THEN /\ CreateStep(c, [c EXCEPT !.pc = "done",
                        !.result = ErrResult("approvers length mismatches pub key commits")])
                /\ UNCHANGED <<multisig_account, mapping, approver>>
           ELSE /\ multisig_account' = stored.rows.multisig_account
                /\ approver' = stored.rows.approver
                /\ mapping' = stored.rows.mapping
                /\ CreateStep(c, [c EXCEPT !.pc = "done",
                                  !.result = IF stored.ok THEN OkSome(account.address)
                                             ELSE ErrResult("store")])
    /\ UNCHANGED <<engine, tx, signature, calls, proposes, queue, worker, chain, sent, building,
                   client,
                   sdk_accounts>>

CreateReturn(c) ==
    /\ c.pc = "done"
    /\ creates' = creates \ {c}
    /\ UNCHANGED <<engine, multisig_account, mapping, tx, signature, calls, proposes, queue,
                   worker, chain, sent, approver, building, client,
                   sdk_accounts>>

\* client.setup_account(approvers, threshold): a new on-chain account under
\* a fresh id, sent on the reply channel
WorkerSetupAccount ==
    /\ worker.pc = "setup_account"
    /\ FreeAccountIds # {}
    /\ \E id \in FreeAccountIds :
           /\ sdk_accounts' = add_account(sdk_accounts, id)
           /\ Reply(worker.msg, OkReply(id))
    /\ UNCHANGED <<engine, multisig_account, mapping, tx, signature, queue, chain, sent,
                   approver, building, client>>

\* --------------------------------------------- domain: MultisigAccount
\* the variables a step of the type-state builder leaves alone
BuilderFrame ==
    UNCHANGED <<engine, multisig_account, mapping, tx, signature, calls, proposes, queue,
                worker, chain, sent, creates, approver, client,
                   sdk_accounts>>

\* MultisigAccount::builder()..build() with a NonZeroU32 threshold
BuilderBuild(threshold) ==
    /\ building.pc = "idle"
    /\ building' = [pc |-> "partial", value |-> Some(MultisigAccountBuilder("acc1", threshold)),
                    on |-> {}, supplied |-> 0]
    /\ BuilderFrame

\* where an attachment leaves the builder
BuilderPc(r) ==
    IF r = None THEN "refused"
    ELSE IF \A a \in r : a.has_approvers /\ a.has_pub_key_commits THEN "full"
    ELSE "partial"

\* account.with_approvers(ids), offered only by the states without approvers
AttachApprovers(ids) ==
    /\ building.pc = "partial"
    /\ \E a \in building.value :
          /\ ~a.has_approvers
          /\ building' = [pc |-> BuilderPc(with_approvers(a, ids)),
                          value |-> with_approvers(a, ids),
                          on |-> {a}, supplied |-> Len(ids)]
    /\ BuilderFrame

\* account.with_pub_key_commits(commits), offered only by the states
\* without commitments
AttachPubKeyCommits(commits) ==
    /\ building.pc = "partial"
    /\ \E a \in building.value :
          /\ ~a.has_pub_key_commits
          /\ building' = [pc |-> BuilderPc(with_pub_key_commits(a, commits)),
                          value |-> with_pub_key_commits(a, commits),
                          on |-> {a}, supplied |-> Len(commits)]
    /\ BuilderFrame

\* the value goes out of scope
BuilderDrop ==
    /\ building.pc # "idle"
    /\ building' = NoAccount
    /\ BuilderFrame

\* ------------------------------------ client library: execute transaction
\* the variables a step inside execute_multisig_transaction leaves alone
ClientFrame ==
    UNCHANGED <<engine, multisig_account, mapping, tx, signature, calls, proposes, queue,
                worker, chain, sent, creates, approver, building, sdk_accounts>>

\* entries of a signature vector: None, or Some(signature)
SignatureEntries == {NoneSig} \cup SignatureBytes

\* tx_summary.to_commitment()
SummaryCommitment == "summary_commitment"

\* the PUB_KEYS storage map item at [i, 0, 0, 0]: the commitment that
\* setup_account stored for approver index i
PubKeyOnChain(i) == PubKeyCommit(i + 1)

\* Rpo256::merge(&[a, b]): an opaque digest of the ordered pair
Rpo256Merge(words) == [hash |-> "rpo256", of |-> words]

\* sig_key of the approver whose commitment is pub_key
SigKey_Swapped(pub_key, msg) == Rpo256Merge(<<msg, pub_key>>)

SigKey(pub_key, msg) == Rpo256Merge(<<pub_key, msg>>)

\* advice_map_mut().insert(key, value)
AdviceInsert(advice, key, value) ==
    {e \in advice : e.key # key} \cup {[key |-> key, value |-> value]}

\* length of (0..num_approvers).zip(signatures)
ZipLen(num_approvers, signatures) ==
    IF num_approvers < Len(signatures) THEN num_approvers ELSE Len(signatures)

\* execute_multisig_transaction(account, tx_request, tx_summary, signatures)
\* for an account whose storage holds num_approvers
ClientExecute(num_approvers, signatures) ==
    /\ client.pc = "idle"
    /\ client' = [NoClient EXCEPT !.pc = "check", !.num_approvers = num_approvers,
                                  !.signatures = signatures]
    /\ ClientFrame

\* the length test that precedes the loop
ClientCheck ==
    /\ client.pc = "check"
    /\ client' = IF NumSignaturesMismatch(Len(client.signatures), client.num_approvers)
                 THEN [client EXCEPT !.pc = "done",
                                     !.result = ErrResult("NumSignaturesMismatch")]
                 ELSE [client EXCEPT !.pc = "advice"]
    /\ ClientFrame

\* one turn of the loop over (i, sig): a None is filtered out; for a Some
\* the key is read from storage (which may fail) and the entry inserted
ClientAdvice(ok) ==
    /\ client.pc = "advice"
    /\ client.i < ZipLen(client.num_approvers, client.signatures)
    /\ LET sig == client.signatures[client.i + 1]
       IN  client' =
             IF sig = NoneSig THEN [client EXCEPT !.i = @ + 1]
             ELSE IF ok
             THEN [client EXCEPT
                     !.i = @ + 1,
                     !.advice = AdviceInsert(@, SigKey(PubKeyOnChain(client.i),
                                                       SummaryCommitment), sig)]
             ELSE [client EXCEPT !.pc = "done", !.advice = {},
                                 !.result = ErrResult("PubKeyStorageSlotMap")]
    /\ ClientFrame

\* self.execute_transaction(account.id(), tx_request) with the advice map
ClientRun(ok) ==
    /\ client.pc = "advice"
    /\ client.i = ZipLen(client.num_approvers, client.signatures)
    /\ client' = [client EXCEPT !.pc = "done", !.executed = TRUE,
                    !.result = IF ok THEN OkSome("tx_result") ELSE ErrResult("TxExecution")]
    /\ ClientFrame

ClientReturn ==
    /\ client.pc = "done"
    /\ client' = NoClient
    /\ ClientFrame

\* ----------------------------------------------------------- HTTP server
\* impl IntoResponse for AppError: the status code of each variant
StatusCode(app_error) ==
    IF app_error \in {"InvalidNetworkId", "InvalidAccountIdAddress", "InvalidPubKeyCommit",
                      "InvalidTransactionRequest", "InvalidSignature",
                      "InvalidMultisigTxStatus", "RequestError"}
    THEN 400
    ELSE IF app_error = "MultisigAccountNotFound" THEN 404
    ELSE 500

\* the add_signature route: `engine.add_signature(request).await?` turns
\* every engine error into AppError::MultisigEngine; an Ok is answered 200
AddSignatureResponse(result) ==
    IF result.kind = "err"
    THEN [status |-> StatusCode("MultisigEngine"),
          body |-> "multisig engine error: " \o result.val]
    ELSE [status |-> 200, body |-> result.val]

\* the propose_multisig_tx route: `engine.propose_multisig_tx(request).await?`
\* turns every engine error, NotFound included, into AppError::MultisigEngine
ProposeMultisigTxResponse(result) ==
    IF result.kind = "err"
    THEN [status |-> StatusCode("MultisigEngine"),
          body |-> "multisig engine error: " \o result.val]
    ELSE [status |-> 200, body |-> result.val]

\* ----------------------------------------------------------------- Next
\* AddSignature requests for the proposed transaction, served by a started
\* engine
Next ==
    \/ \E t \in InitialTxIds, a \in Addresses : AddSignatureNotPermitted(t, a, SignatureOf(a))
    \/ \E t \in InitialTxIds, a \in Addresses : AddSignatureDuplicate(t, a, SignatureOf(a))
    \/ \E t \in InitialTxIds, a \in Addresses : AddSignatureInsert(t, a, SignatureOf(a))
    \/ \E k \in calls : AddSignatureCommit(k)
    \/ \E k \in calls : AddSignatureLoad(k)
    \/ \E k \in calls : AddSignatureSend(k)
    \/ \E k \in calls : AddSignatureReplyOk(k)
    \/ \E k \in calls : AddSignatureReplyErr(k)
    \/ \E k \in calls : AddSignatureReplyClosed(k)
    \/ \E k \in calls : AddSignatureReturn(k)
    \/ \E k \in calls : AddSignatureCancel(k)
    \/ WorkerRecv
    \/ \E ok \in BOOLEAN : WorkerSync(ok)
    \/ \E ok \in BOOLEAN : WorkerGetAccount(ok)
    \/ \E ok \in BOOLEAN : WorkerExecute(ok)
    \/ \E ok \in BOOLEAN : WorkerSubmit(ok)

Spec == Init /\ [][Next]_vars

\* steps of a call that the async executor takes when the call can move on
EngineProgress ==
    \E k \in calls :
        \/ AddSignatureCommit(k)
        \/ AddSignatureLoad(k)
        \/ AddSignatureSend(k)
        \/ AddSignatureReplyOk(k)
        \/ AddSignatureReplyErr(k)
        \/ AddSignatureReplyClosed(k)

\* steps of the worker thread, which runs whenever it has something to do
WorkerProgress ==
    \/ WorkerRecv
    \/ \E ok \in BOOLEAN : WorkerSync(ok)
    \/ \E ok \in BOOLEAN : WorkerGetAccount(ok)
    \/ \E ok \in BOOLEAN : WorkerExecute(ok)
    \/ \E ok \in BOOLEAN : WorkerSubmit(ok)

\* Spec with a running executor and a running worker thread, neither of
\* which crashes or stalls; requests and cancellations stay optional
SpecFair == Init /\ [][Next]_vars /\ WF_vars(EngineProgress) /\ WF_vars(WorkerProgress)

\* the engine from construction: its lifecycle, ProposeMultisigTx requests,
\* and AddSignature requests naming the ids that proposals create
NextLifecycle ==
    \/ Start
    \/ Stop
    \/ StopJoin
    \/ \E t \in NewTxIds, a \in Addresses, s \in SignatureBytes : AddSignatureNotPermitted(t, a, s)
    \/ \E t \in NewTxIds, a \in Addresses, s \in SignatureBytes : AddSignatureDuplicate(t, a, s)
    \/ \E t \in NewTxIds, a \in Addresses, s \in SignatureBytes : AddSignatureInsert(t, a, s)
    \/ \E k \in calls : AddSignatureCommit(k)
    \/ \E k \in calls : AddSignatureLoad(k)
    \/ \E k \in calls : AddSignatureSend(k)
    \/ \E k \in calls : AddSignatureReplyOk(k)
    \/ \E k \in calls : AddSignatureReplyErr(k)
    \/ \E k \in calls : AddSignatureReplyClosed(k)
    \/ \E k \in calls : AddSignatureReturn(k)
    \/ \E k \in calls : AddSignatureCancel(k)
    \/ \E acc \in ProposeAddresses : ProposeStart(acc)
    \/ \E p \in proposes : ProposeReplyOk(p)
    \/ \E p \in proposes : ProposeReplyErr(p)
    \/ \E p \in proposes : ProposeReturn(p)
    \/ \E ok \in BOOLEAN : WorkerInit(ok)
    \/ WorkerRecv
    \/ WorkerShutdown
    \/ \E ok \in BOOLEAN : WorkerSync(ok)
    \/ \E outcome \in SdkOutcomes : WorkerDryRun(outcome)
    \/ WorkerPropose
    \/ \E ok \in BOOLEAN : WorkerGetAccount(ok)
    \/ \E ok \in BOOLEAN : WorkerExecute(ok)
    \/ \E ok \in BOOLEAN : WorkerSubmit(ok)

SpecLifecycle == InitLifecycle /\ [][NextLifecycle]_vars

\* steps of the worker thread from its set-up to its return
WorkerProgressLifecycle ==
    \/ \E ok \in BOOLEAN : WorkerInit(ok)
    \/ WorkerRecv
    \/ WorkerShutdown
    \/ \E ok \in BOOLEAN : WorkerSync(ok)
    \/ \E outcome \in SdkOutcomes : WorkerDryRun(outcome)
    \/ WorkerPropose
    \/ \E ok \in BOOLEAN : WorkerGetAccount(ok)
    \/ \E ok \in BOOLEAN : WorkerExecute(ok)
    \/ \E ok \in BOOLEAN : WorkerSubmit(ok)

\* SpecLifecycle with a worker thread that is scheduled and whose SDK calls
\* return
SpecLifecycleFair ==
    InitLifecycle /\ [][NextLifecycle]_vars /\ WF_vars(WorkerProgressLifecycle)

\* an empty store behind a started engine
InitAccount ==
    /\ multisig_account = <<>>
    /\ mapping = {}
    /\ approver = <<>>
    /\ tx = <<>>
    /\ signature = {}
    /\ chain = [t \in TxIds |-> 0]
    /\ sent = [t \in TxIds |-> 0]
    /\ engine = Started
    /\ calls = {}
    /\ proposes = {}
    /\ creates = {}
    /\ building = NoAccount
    /\ client = NoClient
    /\ sdk_accounts = DOMAIN multisig_account
    /\ queue = <<>>
    /\ worker = [pc |-> "recv", msg |-> NoMsg]

\* CreateMultisigAccount requests with every shape of input
NextAccount ==
    \/ \E threshold \in 1..MaxApprovers + 1, approvers \in SeqsUpTo(CreateApprovers, MaxApprovers),
          n \in 0..MaxApprovers : CreateRejected(threshold, approvers, PubKeyCommits(n))
    \/ \E threshold \in 1..MaxApprovers + 1, approvers \in SeqsUpTo(CreateApprovers, MaxApprovers),
          n \in 0..MaxApprovers : CreateStart(threshold, approvers, PubKeyCommits(n))
    \/ \E c \in creates : CreateReplyClosed(c)
    \/ \E c \in creates : \E fault \in DriverFaults(Len(c.approvers)) : CreateStore(c, fault)
    \/ \E c \in creates : CreateReturn(c)
    \/ WorkerRecv
    \/ \E ok \in BOOLEAN : WorkerSync(ok)
    \/ WorkerSetupAccount

SpecAccount == InitAccount /\ [][NextAccount]_vars

\* the type-state builder applied to thresholds and lists of every size,
\* in both orders of attachment
NextBuilder ==
    \/ \E threshold \in 1..MaxApprovers + 1 : BuilderBuild(threshold)
    \/ \E ids \in SeqsUpTo(CreateApprovers, MaxApprovers + 1) : AttachApprovers(ids)
    \/ \E n \in 0..MaxApprovers + 1 : AttachPubKeyCommits(PubKeyCommits(n))
    \/ BuilderDrop

SpecBuilder == InitAccount /\ [][NextBuilder]_vars

\* execute_multisig_transaction called with signature vectors of every
\* length and content
NextClient ==
    \/ \E n \in 1..MaxApprovers, signatures \in SeqsUpTo(SignatureEntries, MaxApprovers + 1) :
          ClientExecute(n, signatures)
    \/ ClientCheck
    \/ \E ok \in BOOLEAN : ClientAdvice(ok)
    \/ \E ok \in BOOLEAN : ClientRun(ok)
    \/ ClientReturn

SpecClient == InitAccount /\ [][NextClient]_vars

TypeOK ==
    /\ engine \in {Stopped, Started, Stopping, Dropped}
    /\ DOMAIN tx \subseteq TxIds
    /\ \A t \in DOMAIN tx : tx[t].status \in MultisigTxStatus
    /\ \A k \in calls : k.pc \in {"commit", "load", "send", "await", "done"}
    /\ \A p \in proposes : p.pc \in {"await", "done"}
    /\ Cardinality(calls) + Cardinality(proposes) <= MaxCalls
    /\ Len(queue) <= MaxQueue + 1
    /\ worker.pc \in {"none", "init", "recv", "sync", "propose", "sdk_ok", "sdk_unauthorized", "sdk_other",
                      "setup_account", "get_account", "execute",
                      "submit", "exited", "failed"}

\* ------------------------------------------------------------ properties
Terminal == {Success, Failure}

\* committed signature rows of transaction t
SignaturesOf(t) == {r \in signature : r.tx_id = t}

ThresholdOf(t) == multisig_account[tx[t].multisig_account_address].threshold

\* approver a is joined to the account of transaction t
Joined(t, a) ==
    /\ t \in DOMAIN tx
    /\ \E i \in 1..Len(ApproversOf(tx[t].multisig_account_address)) :
          ApproversOf(tx[t].multisig_account_address)[i] = a

\* messages posted and not yet answered
InFlight == {queue[i] : i \in {j \in 1..Len(queue) : queue[j].kind = "ProcessMultisigTx"}} \cup
            (IF worker.msg.kind = "ProcessMultisigTx" THEN {worker.msg} ELSE {})

SomeEntries(m) == {i \in 1..Len(m.signatures) : m.signatures[i] # NoneSig}

\* the calls that enter add_signature in this step
Entered == {k \in calls' \ calls : k.pc = "commit" \/ (k.pc = "done" /\ ~k.stored)}

\* C1: for every transaction at most one ProcessMultisigTx message is ever
\* posted, whatever sequence or interleaving of AddSignature calls happens.
C1_AtMostOneProcessMsg == \A t \in TxIds : sent[t] <= 1

\* C2: a transaction's status changes only from pending; once it is success
\* or failure no step changes it.
C2_StatusChangesOnlyFromPending ==
    [][\A t \in DOMAIN tx : tx[t].status # Pending => tx'[t].status = tx[t].status]_vars

\* C3: every posted ProcessMultisigTx message carries at least `threshold`
\* Some entries, each the stored signature of the approver joined to the
\* transaction's account at that index; and a transaction with status success
\* has at least `threshold` stored signatures of distinct joined approvers.
C3_ThresholdSufficient ==
    /\ \A m \in InFlight :
          /\ Cardinality(SomeEntries(m)) >= ThresholdOf(m.tx_id)
          /\ \A i \in SomeEntries(m) :
                \E mp \in mapping, r \in signature :
                    /\ mp.multisig_account_address = tx[m.tx_id].multisig_account_address
                    /\ mp.approver_index = i - 1
                    /\ r = SignatureRow(m.tx_id, mp.approver_address, m.signatures[i])
    /\ \A t \in DOMAIN tx :
          tx[t].status = Success =>
              Cardinality({r.approver_address : r \in {x \in SignaturesOf(t) :
                              Joined(t, x.approver_address)}}) >= ThresholdOf(t)

\* a message is in flight for a transaction that needs two or more signatures
C3_Witness ==
    \E m \in InFlight :
        /\ ThresholdOf(m.tx_id) >= 2
        /\ Cardinality(SomeEntries(m)) = ThresholdOf(m.tx_id)

\* C4: when exactly T = threshold signatures of distinct approvers have been
\* submitted for a transaction (all of them stored, none still deciding),
\* exactly one call observed Some(true): exactly one message was posted.
C4_ExactlyOneTrigger ==
    \A t \in DOMAIN tx :
        (/\ Cardinality(SignaturesOf(t)) = ThresholdOf(t)
         /\ \A k \in calls : k.tx_id = t => k.pc \notin {"commit", "load", "send"})
        => sent[t] = 1

\* C5: an AddSignature call that starts on a transaction whose status is
\* already success or failure fails at once: it opens no insert and returns
\* an error.
C5_TerminalTxRejectsSignature ==
    [][\A k \in Entered :
          (k.tx_id \in DOMAIN tx /\ tx[k.tx_id].status \in Terminal)
          => (k.pc = "done" /\ k.result.kind = "err")]_vars

\* C6: a call that stored the signature reaching the threshold drives the
\* transaction out of pending: when it has returned the status is terminal.
C6_ThresholdCallLeavesPending ==
    \A k \in calls :
        (k.pc = "done" /\ k.stored /\ k.threshold_met) => tx[k.tx_id].status # Pending

C9_BelowThresholdReturnsNone ==
    [][\A k \in calls \ calls' :
          (/\ k.pc = "commit"
           /\ Cardinality({r \in signature' : r.tx_id = k.tx_id}) < ThresholdOf(k.tx_id))
          => /\ \E k2 \in calls' \ calls :
                   /\ k2.tx_id = k.tx_id /\ k2.approver = k.approver
                   /\ k2.pc = "done" /\ k2.stored /\ ~k2.posted
                   /\ k2.result = OkNone
             /\ SignatureRow(k.tx_id, k.approver, k.signature) \in signature'
             /\ UNCHANGED <<queue, sent, tx>>
             /\ tx[k.tx_id].status = Pending]_vars

\* a call has stored a signature below the threshold and returned Ok(None)
C9_Witness ==
    \E k \in calls :
        /\ k.pc = "done"
        /\ k.stored
        /\ k.result = OkNone
        /\ Cardinality(SignaturesOf(k.tx_id)) < ThresholdOf(k.tx_id)

\* C10: a call naming an approver that is not joined to the transaction's
\* account returns "approver not permitted", and no signature row of such an
\* approver is ever inserted, committed or not.
C10_NotJoinedRejected ==
    /\ \A k \in calls :
          ~Joined(k.tx_id, k.approver)
          => /\ k.pc = "done"
             /\ k.result = ErrResult("approver not permitted")
             /\ ~k.stored
    /\ \A r \in signature : Joined(r.tx_id, r.approver_address)

\* an approver of another account was rejected for this transaction
C10_Witness ==
    \E k \in calls :
        /\ k.pc = "done"
        /\ k.approver = "dave"
        /\ tx[k.tx_id].multisig_account_address = "acc1"
        /\ k.result = ErrResult("approver not permitted")

\* C11: a (tx_id, approver) pair never has more than one signature row,
\* committed or not, and a call made when the pair's row is stored fails with
\* an error and leaves the stored signatures as they were.
C11_DuplicateSignatureRejected ==
    /\ [](\A r1, r2 \in signature \cup UNION {Uncommitted(k) : k \in calls} :
             SameKey(r1, r2.tx_id, r2.approver_address) => r1 = r2)
    /\ [][\A k \in Entered :
             (\E r \in signature : SameKey(r, k.tx_id, k.approver))
             => /\ k.pc = "done"
                /\ k.result.kind = "err"
                /\ signature' = signature]_vars

\* a second attempt of an approver whose signature is stored has failed
C11_Witness ==
    \E k \in calls :
        /\ k.pc = "done"
        /\ ~k.stored
        /\ k.result = ErrResult("store")
        /\ Cardinality({r \in signature : SameKey(r, k.tx_id, k.approver)}) = 1

\* C12: a call naming a tx_id that has no transaction row fails with a
\* missing-transaction error, which is not the store's Ok(None) that the
\* engine reports as "approver not permitted", and inserts nothing.
C12_MissingTxIsError ==
    [][\A k \in Entered :
          k.tx_id \notin DOMAIN tx
          => /\ k.pc = "done"
             /\ k.result.kind = "err"
             /\ k.result # ErrResult("approver not permitted")
             /\ signature' = signature]_vars

\* C13: the ordered load of a transaction of an account with N approvers
\* returns N entries; entry i is the stored signature of the approver created
\* at index i when that approver has signed the transaction, None otherwise.
C13_OrderedLoad ==
    [][\A k \in calls \ calls' :
          k.pc = "load"
          => \E k2 \in calls' \ calls :
                LET approvers == ApproversOf(tx[k.tx_id].multisig_account_address)
                    Signed(i) == {r \in signature : SameKey(r, k.tx_id, approvers[i])}
                IN  /\ k2.pc = "send"
                    /\ k2.tx_id = k.tx_id /\ k2.approver = k.approver
                    /\ Len(k2.signatures) = Len(approvers)
                    /\ \A i \in 1..Len(approvers) :
                          IF Signed(i) = {} THEN k2.signatures[i] = NoneSig
                          ELSE \E r \in Signed(i) : k2.signatures[i] = r.signature_bytes]_vars

\* a load found the first approver unsigned and a later approver signed
C13_Witness ==
    \E k \in calls :
        /\ k.pc = "send"
        /\ Len(k.signatures) = 3
        /\ k.signatures[1] = NoneSig
        /\ k.signatures[3] # NoneSig

\* C14: when the worker finishes handling a message, by success or by a
\* failure at any step, the call waiting for that message has a value, Ok or
\* Err, on its reply channel: the channel is never closed without one.
C14_HandlerFailureSendsError ==
    [][\A k \in Awaiting(worker.msg) :
          worker'.msg = NoMsg
          => \E k2 \in calls' :
                /\ k2.tx_id = k.tx_id /\ k2.approver = k.approver
                /\ k2.reply.st \in {"ok", "err"}]_vars

C16_FifoOrder ==
    /\ [][queue' # queue =>
             \/ (queue # <<>> /\ queue' = Tail(queue) /\ worker'.msg = Head(queue))
             \/ (Len(queue') = Len(queue) + 1 /\ SubSeq(queue', 1, Len(queue)) = queue)]_vars
    /\ [][(worker'.msg # NoMsg /\ worker'.msg # worker.msg) =>
             /\ worker.msg = NoMsg
             /\ queue # <<>>
             /\ worker'.msg = Head(queue)
             /\ queue' = Tail(queue)]_vars
    /\ [][\A t \in TxIds : chain'[t] # chain[t] => worker.msg.tx_id = t]_vars

\* the worker handles one caller's message while another caller's message,
\* enqueued behind it, waits
C16_Witness ==
    /\ worker.msg.kind = "ProcessMultisigTx"
    /\ worker.pc = "submit"
    /\ queue # <<>>
    /\ queue[1].caller # worker.msg.caller
    /\ Awaiting(worker.msg) # {}
    /\ Awaiting(queue[1]) # {}

\* C17: the worker that dequeues Shutdown exits at that step and drops the
\* rest of the queue; an exited worker takes no message and submits nothing
\* until the engine is started again; and stop yields the Stopped engine only
\* when the worker has exited.
C17_ShutdownStopsWorker ==
    /\ [][(worker.pc = "recv" /\ queue # <<>> /\ Head(queue) = Shutdown /\ queue' # queue) =>
             (worker'.pc = "exited" /\ worker'.msg = NoMsg /\ queue' = <<>>)]_vars
    /\ [][worker.pc = "exited" =>
             /\ worker' = worker \/ (engine = Stopped /\ engine' = Started)
             /\ chain' = chain]_vars
    /\ [][(engine # Stopped /\ engine' = Stopped) => worker.pc = "exited"]_vars
    /\ [](engine = Stopped => worker.pc \in {"none", "exited"})

\* stop has returned the Stopped engine after the worker handled a message
\* and then Shutdown
C17_Witness ==
    /\ engine = Stopped
    /\ worker.pc = "exited"
    /\ \E t \in DOMAIN tx : t \in NewTxIds

\* C18: while the engine is Started, from the return of start until stop is
\* called, its worker thread is alive.
C18_WorkerAliveWhileStarted ==
    engine = Started => worker.pc \notin {"none", "exited", "failed"}

C20_ProposeUnknownAccountNotFound ==
    /\ [][\A p \in proposes' \ proposes :
             ~get_multisig_account(p.address)
             => /\ p.pc = "done"
                /\ p.result = ErrResult("account not found")
                /\ tx' = tx]_vars
    /\ [](\A t \in DOMAIN tx : get_multisig_account(tx[t].multisig_account_address))

\* C21: a transaction row is pending and has no signature rows, committed
\* or not, at the step that inserts it.
C21_NewTxPendingUnsigned ==
    [][\A t \in DOMAIN tx' \ DOMAIN tx :
          /\ tx'[t].status = Pending
          /\ \A r \in signature' \cup UNION {Uncommitted(k) : k \in calls'} : r.tx_id # t]_vars

\* a proposal has created a transaction row after signatures were requested
\* for its id
C21_Witness ==
    \E t \in DOMAIN tx \cap NewTxIds :
        /\ tx[t].status = Pending
        /\ \E p \in proposes : p.result = OkSome(t)
        /\ \E k \in calls : k.tx_id = t /\ k.result = ErrResult("approver not permitted")

\* accounts in the store with their number of join rows
ApproverCount(acc) == Cardinality({m \in mapping : m.multisig_account_address = acc})

\* CreateMultisigAccount messages posted and not yet answered
CreateInFlight ==
    {queue[i] : i \in {j \in 1..Len(queue) : queue[j].kind = "CreateMultisigAccount"}} \cup
    (IF worker.msg.kind = "CreateMultisigAccount" THEN {worker.msg} ELSE {})

\* C22: constructing a CreateMultisigAccountRequest fails with
\* EmptyApprovers when approvers is empty, otherwise with EmptyPubKeyCommits
\* when the commitments are empty, otherwise with the length-mismatch error
\* when the lengths differ, otherwise with ExcessThreshold when threshold >
\* |approvers|; no message to the runtime, no call inside the engine and no
\* stored account violates N >= T >= 1 with |approvers| = |commitments| = N.
C22_RequestValidation ==
    /\ \A c \in creates :
          /\ c.approvers = <<>> => c.result = ErrResult("EmptyApprovers")
          /\ (c.approvers # <<>> /\ c.pub_key_commits = <<>>)
             => c.result = ErrResult("EmptyPubKeyCommits")
          /\ (c.approvers # <<>> /\ c.pub_key_commits # <<>>
                /\ Len(c.approvers) # Len(c.pub_key_commits))
             => c.result = ErrResult("ApproversPubKeyCommitsLengthMismatch")
          /\ (c.approvers # <<>> /\ Len(c.approvers) = Len(c.pub_key_commits)
                /\ c.threshold > Len(c.approvers))
             => c.result = ErrResult("ExcessThreshold")
          /\ (c.pc = "await" \/ (c.pc = "done" /\ c.result.kind = "ok"))
             => /\ Len(c.approvers) = Len(c.pub_key_commits)
                /\ Len(c.approvers) >= c.threshold
                /\ c.threshold >= 1
    /\ \A m \in CreateInFlight : Len(m.approvers) >= m.threshold /\ m.threshold >= 1
    /\ \A acc \in DOMAIN multisig_account :
          /\ ApproverCount(acc) >= multisig_account[acc].threshold
          /\ multisig_account[acc].threshold >= 1

\* one request was refused for its threshold after another created an account
C22_Witness ==
    /\ \E c \in creates : c.pc = "done" /\ c.result = ErrResult("ExcessThreshold")
    /\ DOMAIN multisig_account # {}

\* join rows of account acc
MappingOf(acc) == {m \in mapping : m.multisig_account_address = acc}

\* addresses of the approver list of account acc, in listing order
ListedApprovers(acc) ==
    [i \in 1..ApproverCount(acc) |-> stream_approvers_by_multisig_account_address(acc)[i].address]

\* C23: the join rows of every stored account carry the approver_index
\* values 0..N-1, each once; the step that stores an account makes the
\* listing of its approvers equal to the list the request supplied; and no
\* later step changes the rows of a stored account.
C23_DenseStableApproverIndex ==
    /\ [](\A acc \in DOMAIN multisig_account :
             /\ {m.approver_index : m \in MappingOf(acc)} = 0..(ApproverCount(acc) - 1)
             /\ \A m, o \in MappingOf(acc) : m.approver_index = o.approver_index => m = o)
    /\ [][\A c \in creates : \A acc \in DOMAIN multisig_account' \ DOMAIN multisig_account :
             (c.pc = "await" /\ c.reply = OkReply(acc)) => ListedApprovers(acc)' = c.approvers]_vars
    /\ [][\A acc \in DOMAIN multisig_account :
             /\ acc \in DOMAIN multisig_account'
             /\ MappingOf(acc)' = MappingOf(acc)]_vars

\* two accounts are stored and one lists bob before alice
C23_Witness ==
    /\ Cardinality(DOMAIN multisig_account) = 2
    /\ \E acc \in DOMAIN multisig_account : ListedApprovers(acc) = <<"bob", "alice">>

C25_TypeStateCounts ==
    /\ \A a \in building.value :
          (a.has_approvers /\ a.has_pub_key_commits)
          => /\ Len(a.approvers) = Len(a.pub_key_commits)
             /\ Len(a.approvers) >= a.threshold
    /\ \A a \in building.on :
          IF ~a.has_approvers /\ ~a.has_pub_key_commits
          THEN (building.value = None) <=> (building.supplied < a.threshold)
          ELSE (building.value = None) <=>
                   (building.supplied # (IF a.has_approvers THEN Len(a.approvers)
                                         ELSE Len(a.pub_key_commits)))

\* a fully populated account whose commitments were attached first and
\* whose count equals the threshold
C25_Witness ==
    /\ building.pc = "full"
    /\ \E a \in building.on : a.has_pub_key_commits /\ ~a.has_approvers
    /\ \E a \in building.value : Len(a.approvers) = a.threshold

\* the proposal whose message the worker is handling
ProposeServed == AwaitingPropose(worker.msg)

\* C26: the runtime answers a ProposeMultisigTx with Ok(summary) exactly
\* when the SDK's execution failed with Unauthorized(summary); when the SDK
\* returned Ok the answer is the DryRunExpected error, and any other SDK
\* error is passed on as an error; a call answered with an error returns an
\* error and a transaction row is inserted only for a call answered with
\* Ok(summary).
C26_ProposeOnlyOnUnauthorized ==
    /\ [][\A p \in ProposeServed :
             (worker.pc \in {"sdk_ok", "sdk_unauthorized", "sdk_other"} /\ worker'.pc # worker.pc)
             => \E q \in proposes' :
                   /\ q.address = p.address
                   /\ (q.reply.st = "ok") <=> (worker.pc = "sdk_unauthorized")
                   /\ worker.pc = "sdk_unauthorized"
                      => q.reply = OkReply(TransactionSummary(p.address))
                   /\ worker.pc = "sdk_ok" => q.reply = ErrReplyOf("DryRunExpected")
                   /\ worker.pc = "sdk_other" => q.reply = ErrReplyOf("Other")]_vars
    /\ [][\A p \in proposes :
             (p.pc = "await" /\ p.reply.st \in {"err", "closed"} /\ p \notin proposes')
             => /\ DOMAIN tx' = DOMAIN tx
                /\ \E q \in proposes' :
                      q.address = p.address /\ q.pc = "done" /\ q.result.kind = "err"]_vars
    /\ [][DOMAIN tx' # DOMAIN tx
             => \E p \in proposes : p.pc = "await" /\ p.reply.st = "ok" /\ p \notin proposes']_vars

\* a proposal was refused because the SDK executed the request instead of
\* asking for signatures, and no transaction row was inserted
C26_Witness ==
    /\ \E p \in proposes : p.pc = "done" /\ p.result = ErrResult("DryRunExpected")
    /\ DOMAIN tx \cap NewTxIds = {}

\* C27: execute_multisig_transaction called with a signature vector whose
\* length differs from the account's num_approvers fails with
\* NumSignaturesMismatch, with nothing inserted into the advice map and the
\* SDK's execution not started.
C27_LengthMismatchFailsFirst ==
    (client.pc \in {"advice", "done"} /\ Len(client.signatures) # client.num_approvers)
    => /\ client.pc = "done"
       /\ client.result = ErrResult("NumSignaturesMismatch")
       /\ client.advice = {}
       /\ ~client.executed

\* a vector that is too short and holds a signature was refused
C27_Witness ==
    /\ client.pc = "done"
    /\ client.result = ErrResult("NumSignaturesMismatch")
    /\ Len(client.signatures) < client.num_approvers
    /\ \E j \in 1..Len(client.signatures) : client.signatures[j] # NoneSig

\* positions of the vector the loop has passed, counted from 0
Passed == 0..(client.i - 1)

\* C28: while the loop runs and when the SDK is called, the advice map
\* holds, for every passed position i with Some(signature), the entry with
\* key rpo256(pub_key_commit_i, tx_summary_commitment) in that order and
\* that signature as value, and holds no other entry.
C28_AdviceMapEntries ==
    (client.pc = "advice" \/ client.executed)
    => /\ \A j \in Passed :
             client.signatures[j + 1] # NoneSig
             => [key |-> [hash |-> "rpo256", of |-> <<PubKeyCommit(j + 1), SummaryCommitment>>],
                 value |-> client.signatures[j + 1]] \in client.advice
       /\ \A e \in client.advice :
             \E j \in Passed :
                /\ client.signatures[j + 1] # NoneSig
                /\ e.key.of = <<PubKeyCommit(j + 1), SummaryCommitment>>
                /\ e.value = client.signatures[j + 1]

\* the SDK ran with a vector holding None first and a signature second
C28_Witness ==
    /\ client.executed
    /\ client.num_approvers = 2
    /\ client.signatures[1] = NoneSig
    /\ client.signatures[2] = "sig1"
    /\ Cardinality(client.advice) = 1

\* C29: every step keeps each stored signature row as it is, and the number
\* of stored signatures of a transaction never decreases.
C29_SignatureRowsKept ==
    [][/\ \A r \in signature : r \in signature'
       /\ \A t \in TxIds : Cardinality(SignaturesOf(t)') >= Cardinality(SignaturesOf(t))]_vars

\* two signatures are stored for a transaction the engine has finished
C29_Witness ==
    /\ Cardinality(SignaturesOf("t1")) >= 2
    /\ tx["t1"].status \in Terminal
    /\ calls = {}

\* C30: an add-signature request whose approver is not joined to the
\* transaction's account is answered with status 400.
C30_NotPermittedIsBadRequest ==
    \A k \in calls :
        (k.pc = "done" /\ ~Joined(k.tx_id, k.approver))
        => AddSignatureResponse(k.result).status = 400

\* C31: a propose request that fails because the account it names is not
\* in the store is answered with status 404.
C31_MissingAccountIsNotFound ==
    \A p \in proposes :
        (p.pc = "done" /\ p.result = ErrResult("account not found"))
        => ProposeMultisigTxResponse(p.result).status = 404

\* C32: AddSignature calls that are inside the (insert, recount, compare)
\* block for the same transaction at the same time have observed pairwise
\* distinct signature counts.
C32_ConcurrentCountsDistinct ==
    \A k, o \in calls :
        (k # o /\ k.pc = "commit" /\ o.pc = "commit" /\ k.tx_id = o.tx_id)
        => k.signature_count # o.signature_count

\* C33: every transaction whose chain submission succeeded eventually has
\* status success in the store, and never has status failure.
C33_SubmittedBecomesSuccess ==
    \A t \in InitialTxIds :
        /\ (chain[t] >= 1) ~> (tx[t].status = Success)
        /\ [](chain[t] >= 1 => tx[t].status # Failure)

\* a call of the given request waits on its reply channel
AddSignatureWaits(t, a) ==
    \E k \in calls : k.tx_id = t /\ k.approver = a /\ k.pc = "await" /\ k.reply = EmptyReply

ProposeWaits(acc) ==
    \E p \in proposes : p.address = acc /\ p.pc = "await" /\ p.reply = EmptyReply

\* requests that can come to wait: proposals for stored accounts, and
\* signatures of the approvers of those accounts
StoredProposeAddresses == ProposeAddresses \cap AccountAddresses

PermittedApprovers ==
    UNION {{ApproversOf(acc)[i] : i \in 1..Len(ApproversOf(acc))} : acc \in StoredProposeAddresses}

\* C34: every engine call that waits for the runtime's reply eventually
\* holds a reply value or a closed-channel error; no call waits on a worker
\* that has returned, since a post to a returned worker fails at once; and
\* no other request ever comes to wait.
C34_NoCallWaitsForever ==
    /\ \A t \in NewTxIds, a \in PermittedApprovers :
          AddSignatureWaits(t, a) ~> ~AddSignatureWaits(t, a)
    /\ \A acc \in StoredProposeAddresses : ProposeWaits(acc) ~> ~ProposeWaits(acc)
    /\ [](/\ \A t \in NewTxIds, a \in Addresses \ PermittedApprovers : ~AddSignatureWaits(t, a)
          /\ \A acc \in ProposeAddresses \ StoredProposeAddresses : ~ProposeWaits(acc)
          /\ WorkerGone => /\ \A t \in NewTxIds, a \in Addresses : ~AddSignatureWaits(t, a)
                            /\ \A acc \in ProposeAddresses : ~ProposeWaits(acc))

\* the worker's set-up failed while a proposal was waiting for its reply,
\* and the proposal found its channel closed
C34_Witness ==
    /\ worker.pc = "failed"
    /\ \E p \in proposes : p.pc = "await" /\ p.reply = ClosedReply

\* C35: a ProcessMultisigTx reply channel receives Ok(result) only in the
\* step in which the chain submission of that transaction returned
\* successfully; a call holding an Ok reply, and a transaction marked
\* success, have a completed chain submission.
C35_OkReplyAfterSubmission ==
    /\ [][\A k \in calls' : (k.reply.st = "ok" /\ [k EXCEPT !.reply = EmptyReply] \in calls)
             => chain'[k.tx_id] = chain[k.tx_id] + 1]_vars
    /\ [](\A k \in calls : k.reply.st = "ok" => chain[k.tx_id] >= 1)
    /\ [](\A t \in DOMAIN tx : tx[t].status = Success => chain[t] >= 1)

\* the runtime has submitted t1 and replied Ok, and the engine has not yet
\* written the status
C35_Witness ==
    /\ chain["t1"] = 1
    /\ tx["t1"].status = Pending
    /\ \E k \in calls : k.tx_id = "t1" /\ k.pc = "await" /\ k.reply.st = "ok"

\* positions of the worker inside a handler after its sync_state call
HandlerPcs ==
    {"get_account", "execute", "submit", "setup_account", "propose"}
        \cup {"sdk_" \o o : o \in SdkOutcomes}

\* the requests whose reply channel received a value in this step
Answered ==
    {k \in calls' : k.reply.st \in {"ok", "err"} /\ [k EXCEPT !.reply = EmptyReply] \in calls}
        \cup {p \in proposes' : p.reply.st \in {"ok", "err"}
                                /\ [p EXCEPT !.reply = EmptyReply] \in proposes}
        \cup {c \in creates' : c.reply.st \in {"ok", "err"}
                               /\ [c EXCEPT !.reply = EmptyReply] \in creates}

C37_StoreCreateAllOrNothing ==
    /\ [][\A c \in creates' :
             (c.pc = "done" /\ c.result = ErrResult("store") /\ c \notin creates)
             => (multisig_account' = multisig_account /\ approver' = approver
                 /\ mapping' = mapping)]_vars
    /\ [](\A m \in mapping : m.multisig_account_address \in DOMAIN multisig_account)
    /\ [](\A a \in DOMAIN multisig_account :
             \E m \in mapping : m.multisig_account_address = a)

\* a creation naming bob twice has failed in the store after alice and bob
\* were stored for an earlier account
C37_Witness ==
    /\ DOMAIN multisig_account # {}
    /\ "bob" \in DOMAIN approver
    /\ \E c \in creates : /\ c.pc = "done" /\ c.result = ErrResult("store")
                          /\ c.approvers = <<"bob", "bob">>

\* C38: the engine's create_multisig_account is all-or-nothing across the
\* wallet SDK and the store: when a call has finished, with an error or with
\* a response, the accounts the SDK client tracks are exactly the accounts
\* with a row in the store, so an error leaves no new account in the SDK and
\* every account made in the SDK has its row.
C38_CreateAllOrNothingAcrossSdkAndStore ==
    \A c \in creates : c.pc = "done" => sdk_accounts = DOMAIN multisig_account

\* C39: the pub_key_commit reported for each approver of an account always
\* equals the commitment supplied for that approver when the account was
\* created: the approver listing of a stored account, with its commitments,
\* is never changed by a later step, in particular not by the creation of
\* another account that names the same approver with another commitment.
C39_ReportedCommitIsCreationCommit ==
    [][\A a \in DOMAIN multisig_account :
          stream_approvers_by_multisig_account_address(a)'
              = stream_approvers_by_multisig_account_address(a)]_vars

====
